---- MODULE Spec2Model ----
(***************************************************************************)
(* Model of the CPU jitter random number generator (jitterentropy-base.c,  *)
(* held in src/unnamed/part_000) and of its entry points                   *)
(* jent_entropy_collector_alloc, jent_read_entropy,                        *)
(* jent_entropy_collector_free and jent_entropy_init.                      *)
(*                                                                         *)
(* Scaling.  The program works on 64-bit words, 8-bit bytes, 32-bit ints   *)
(* and a 300+100 iteration start-up test.  The model keeps every           *)
(* computation of the source but on narrower words: a word has             *)
(* DATA_SIZE_BITS bits, a byte of the caller's buffer has one bit (so a    *)
(* word is DATA_SIZE_BITS bytes long, as the 64-bit word is 8 bytes long), *)
(* an int and a size_t have INT_BITS bits.  All these widths are bounds of *)
(* the model.  The timer is the environment: every call of                 *)
(* jent_get_nstime returns an arbitrary value of TimerVals.                *)
(***************************************************************************)
EXTENDS Integers, Sequences, FiniteSets, TLC

\* ------------------------------------------------------------------ bounds
\* Width of __u64 in the model (64 in the program).
DATA_SIZE_BITS == 2
\* Width of int, unsigned int and size_t in the model (32 in the program).
INT_BITS == 2
\* Largest oversampling rate passed to jent_entropy_collector_alloc.
MaxOsr == 2
\* jent_get_nstime returns a value of 0 .. MaxTime.
MaxTime == 1
\* Memory geometry of the memory access noise source (jitterentropy.h).
JENT_MEMORY_BLOCKSIZE == 3
JENT_MEMORY_BLOCKS == 1
JENT_MEMORY_ACCESSLOOPS == 1
\* Width of the time stamps of jent_entropy_init in the model (64 in the
\* program): the timer wraps at most once during the test loop.
TIME_BITS == 13
\* Iterations of jent_entropy_init that are evaluated (300 in the program) and
\* that only warm the caches (100 in the program).
TESTLOOPCOUNT == 20
CLEARCACHE == 1

\* Accumulation steps of a generation pass looked at on its own.
MaxAcc == 5
\* Width of __u64 when a static function is run on its own (64 in the
\* program).
PURE_BITS == 8
\* Largest bits and min that jent_loop_shuffle is run with on its own.
MaxShuffleBits == 6
MaxShuffleMin == 3
\* Largest memory geometry the walk of jent_memaccess is run with on its own.
MaxBlockSize == 4
MaxBlocks == 3
\* jent_stir_pool on its own is run on pools whose set bits are among the
\* MaxStirBit lowest and the MaxStirBit highest positions.
MaxStirBit == 2
\* The static functions on their own are run for every TIME_ENTROPY_BITS of
\* 1 .. MaxTeb, the value being a parameter of the build.
MaxTeb == 4

\* ------------------------------------------------------- program constants
\* Bits of entropy assumed per folded time delta (jitterentropy.h).
TIME_ENTROPY_BITS == 1
MAX_FOLD_LOOP_BIT == 4
MIN_FOLD_LOOP_BIT == 0
\* Flags of jent_entropy_collector_alloc: a flag word is the set of its flags.
JENT_DISABLE_STIR == "JENT_DISABLE_STIR"
JENT_DISABLE_UNBIAS == "JENT_DISABLE_UNBIAS"
JENT_DISABLE_MEMORY_ACCESS == "JENT_DISABLE_MEMORY_ACCESS"
\* Error codes of jent_read_entropy.
EFIPS == -1
ENULL == -2
\* jent_entropy_init counts the deltas that are multiples of 100.
COARSE == 100

U64 == 2 ^ DATA_SIZE_BITS
UINT == 2 ^ INT_BITS
TimerVals == 0 .. MaxTime
\* Bytes of one word: DATA_SIZE_BITS / 8 in the program, where a byte has 8
\* bits; a byte of the model has one bit.
WORD_BYTES == DATA_SIZE_BITS
\* Every value of a size_t.
Lens == 0 .. (UINT - 1)
FlagWords == SUBSET {JENT_DISABLE_STIR, JENT_DISABLE_UNBIAS, JENT_DISABLE_MEMORY_ACCESS}

\* --------------------------------------------------------- word arithmetic
RECURSIVE XorN(_, _, _)
XorN(x, y, n) ==
    IF n = 0 THEN 0
    ELSE ((x + y) % 2) + 2 * XorN(x \div 2, y \div 2, n - 1)

\* x ^ y on words
Xor(x, y) == XorN(x, y, DATA_SIZE_BITS)

\* x & mask on words
RECURSIVE AndN(_, _, _)
AndN(x, y, n) ==
    IF n = 0 THEN 0
    ELSE ((x % 2) * (y % 2)) + 2 * AndN(x \div 2, y \div 2, n - 1)

And(x, y) == AndN(x, y, DATA_SIZE_BITS)

\* x << n and x >> n on words (0 <= n < DATA_SIZE_BITS)
Shl(x, n) == (x * (2 ^ n)) % U64
Shr(x, n) == x \div (2 ^ n)

\* rol64(word, shift) = (word << shift) | (word >> (64 - shift))
rol64(x, n) == Shl(x, n) + Shr(x, DATA_SIZE_BITS - n)

\* (int) of an unsigned value: the low INT_BITS bits, two's complement.
ToInt(n) ==
    LET m == n % UINT
    IN  IF m >= UINT \div 2 THEN m - UINT ELSE m

\* ----------------------------------------------------------- pure helpers
\* jent_loop_shuffle on words of w bits: t is the timer reading, ecdata the
\* pool of the collector or -1 when the collector is NULL.
RECURSIVE ShuffleFold(_, _, _, _, _)
ShuffleFold(w, time, mask, bits, n) ==
    IF n = 0 THEN 0
    ELSE XorN(AndN(time, mask, w),
              ShuffleFold(w, time \div (2 ^ bits), mask, bits, n - 1), w)

\* jent_loop_shuffle that folds the time stamp without the mask.
LoopShuffle_nomask(w, ecdata, t, bits, min) ==
    LET time == IF ecdata = -1 THEN t ELSE XorN(t, ecdata, w)
    IN  ShuffleFold(w, time, (2 ^ w) - 1, bits, w \div bits) + (2 ^ min)

LoopShuffle(w, ecdata, t, bits, min) ==
    LET mask == (2 ^ bits) - 1
        time == IF ecdata = -1 THEN t ELSE XorN(t, ecdata, w)
    IN  ShuffleFold(w, time, mask % (2 ^ w), bits, w \div bits) + (2 ^ min)

jent_loop_shuffle(ecdata, t, bits, min) ==
    LoopShuffle(DATA_SIZE_BITS, ecdata, t, bits, min)

\* The pass of the folding loop that ends one window early.
RECURSIVE FoldPass_short(_, _, _, _)
FoldPass_short(w, teb, time, i) ==
    IF (w \div teb) > i
    THEN XorN(((time * (2 ^ (w - (teb * i)))) % (2 ^ w)) \div (2 ^ (w - teb)),
              FoldPass_short(w, teb, time, i + 1), w)
    ELSE 0

\* One pass of the folding loop of jent_fold_time on words of w bits in a
\* build with TIME_ENTROPY_BITS = teb, from the loop index i on.
RECURSIVE FoldPass(_, _, _, _)
FoldPass(w, teb, time, i) ==
    IF (w \div teb) >= i
    THEN XorN(((time * (2 ^ (w - (teb * i)))) % (2 ^ w)) \div (2 ^ (w - teb)),
              FoldPass(w, teb, time, i + 1), w)
    ELSE 0

FoldFrom(time, i) == FoldPass(DATA_SIZE_BITS, TIME_ENTROPY_BITS, time, i)

\* The loop over j of jent_fold_time: every pass starts from new = 0.
RECURSIVE FoldLoops(_, _, _, _, _, _)
FoldLoops(w, teb, time, j, fold_loop_cnt, new) ==
    IF j < fold_loop_cnt
    THEN FoldLoops(w, teb, time, j + 1, fold_loop_cnt, FoldPass(w, teb, time, 1))
    ELSE new

\* jent_fold_time: the folded value and the number of loops; ts is the timer
\* reading taken by jent_loop_shuffle.
jent_fold_time(ecdata, time, loop_cnt, ts) ==
    LET shuffled == jent_loop_shuffle(ecdata, ts, MAX_FOLD_LOOP_BIT, MIN_FOLD_LOOP_BIT)
        fold_loop_cnt == IF loop_cnt # 0 THEN loop_cnt ELSE shuffled
    IN  [folded |-> IF fold_loop_cnt > 0 THEN FoldFrom(time, 1) ELSE 0,
         loops |-> fold_loop_cnt]

\* Width of the __u64 words of jent_stir_pool.
U64_BITS == 64

\* The SHA-1 initialisation vectors of jent_stir_pool, as hexadecimal digits
\* from the most significant one: constant = 0x67452301efcdab89 and
\* mixer = 0x98badcfe10325476.
STIR_CONSTANT == <<6, 7, 4, 5, 2, 3, 0, 1, 14, 15, 12, 13, 10, 11, 8, 9>>
STIR_MIXER == <<9, 8, 11, 10, 13, 12, 15, 14, 1, 0, 3, 2, 5, 4, 7, 6>>

\* A word as the set of the positions of its set bits, and back.
BitsOf(x, w) == {i \in 0 .. (w - 1) : (x \div (2 ^ i)) % 2 = 1}

RECURSIVE WordOf(_)
WordOf(bits) ==
    IF bits = {} THEN 0
    ELSE LET i == CHOOSE j \in bits : TRUE
         IN  (2 ^ i) + WordOf(bits \ {i})

\* x ^ y and rol64(x, 1) on words of w bits given by their set bits.
SymDiff(x, y) == (x \ y) \cup (y \ x)
Rol1(x, w) == {(i + 1) % w : i \in x}

\* The low w bits of a hexadecimal constant.
HexBits(hex, w) ==
    {i \in 0 .. (w - 1) :
        (hex[Len(hex) - (i \div 4)] \div (2 ^ (i % 4))) % 2 = 1}

\* One turn of the loop of jent_stir_pool on words of w bits: the mixer
\* takes the constant when bit i of the pool d is set, and is rotated.
StirTurn(w, d, mixer, i) ==
    Rol1(IF i \in d THEN SymDiff(mixer, HexBits(STIR_CONSTANT, w)) ELSE mixer, w)

RECURSIVE StirMix(_, _, _, _)
StirMix(w, d, mixer, i) ==
    IF i < w THEN StirMix(w, d, StirTurn(w, d, mixer, i), i + 1) ELSE mixer

\* The end of jent_stir_pool that stores the mixer as the pool.
StirXor_store(d, mixer) == mixer

\* The end of jent_stir_pool: the mixer is XORed into the pool.
StirXor(d, mixer) == SymDiff(d, mixer)

\* jent_stir_pool on a pool of w bits: the new value of ec->data.
StirPool(w, d) == StirXor(d, StirMix(w, d, HexBits(STIR_MIXER, w), 0))

\* jent_stir_pool of the collector.  (With the constants cut to
\* DATA_SIZE_BITS bits the step maps every pool to the same word; the pools
\* of the collectors with JENT_DISABLE_STIR take every value.)
jent_stir_pool(d) ==
    WordOf(StirPool(DATA_SIZE_BITS, BitsOf(d, DATA_SIZE_BITS)))

\* Number of loops of jent_gen_entropy (an unsigned int product).
GenRounds(o) ==
    ((((DATA_SIZE_BITS - 1) \div TIME_ENTROPY_BITS) + 1) * o) % UINT

\* ------------------------------------------------------------------ state
VARIABLES
    ec,             \* "NULL": no collector; "live": a struct rand_data exists
    data,           \* ec->data
    old_data,       \* ec->old_data
    prev_time,      \* ec->prev_time
    fips_fail,      \* ec->fips_fail
    osr,            \* ec->osr
    stir,           \* ec->stir
    disable_unbias, \* ec->disable_unbias
    mem,            \* ec->mem: TRUE when the memory block is allocated
    memlocation,    \* ec->memlocation
    fips_enabled,   \* what jent_fips_enabled() returns on this system
    pc,             \* position of the caller's thread in the library
    stack,          \* continuations: where to go on after the current function
    k,              \* loop counter of jent_gen_entropy
    len,            \* jent_read_entropy: bytes still to deliver
    orig_len,       \* jent_read_entropy: bytes requested
    buf,            \* the caller's buffer: {} for a byte not written, {b} for byte b
    ret,            \* jent_read_entropy: result of jent_fips_test
    result,         \* what the last call returned to the caller
    trace,          \* history: steps of the call in progress, in order
    lastOut,        \* history: the block last copied out of this collector, if a full word
    nmeas,          \* history: calls of jent_measure_jitter in the call in progress
    acc,            \* history: the samples accumulated by the generation pass
                    \* that follows the loop of jent_read_entropy
    args,           \* history: the arguments jent_entropy_collector_alloc was called with
    reads,          \* history: calls of jent_read_entropy on this collector (up to 2)
    zeros,          \* history: every sample accumulated into this collector was 0
    pass,           \* history: the time stamps of the generation pass in progress
    init,           \* jent_entropy_init: its locals, the timer and its result
    pure,           \* a call of one of the static functions on its own:
                    \* its arguments and what it returns
    rngd            \* the daemon jitterentropy-rngd: its process and its globals

colvars == <<ec, data, old_data, prev_time, fips_fail, osr, stir,
             disable_unbias, mem, memlocation>>
callvars == <<pc, stack, k, len, orig_len, buf, ret, result>>
histvars == <<trace, lastOut, nmeas, acc>>
lifevars == <<args, reads, zeros, pass>>
initvars == <<init>>
auxvars == <<pure, rngd>>
vars == <<colvars, fips_enabled, callvars, histvars, lifevars, initvars,
          auxvars>>

\* Fields the allocation sets together with ec->mem.
memblocksize == IF mem THEN JENT_MEMORY_BLOCKSIZE ELSE 0
memblocks == IF mem THEN JENT_MEMORY_BLOCKS ELSE 0
memaccessloops == IF mem THEN JENT_MEMORY_ACCESSLOOPS ELSE 0

\* The counter of measurements stops at MeasCap.
\* (three generation passes of the longest kind without unbiasing, and one
\* more).
MaxRounds ==
    CHOOSE m \in {GenRounds(o) : o \in 1 .. MaxOsr} :
        \A o \in 1 .. MaxOsr : GenRounds(o) <= m
MeasCap == 3 * (MaxRounds + 1) + 1
Count(n, d) == IF n + d > MeasCap THEN MeasCap ELSE n + d

NoResult == [op |-> "none", ok |-> TRUE, val |-> 0]

\* No static function called on its own.
NoCall == [op |-> "none"]

\* The daemon not started.
NoRngd == [pc |-> "off"]

\* No collector: no arguments.
NoArgs == [osr |-> 0, flags |-> {}]

\* A generation pass at its entry: no throwaway measurement taken (throw),
\* ec->prev_time not read in this pass (fresh), no sample folded from a time
\* stamp of before the pass (stale).
NoPass == [throw |-> 0, fresh |-> FALSE, stale |-> FALSE]

\* jent_entropy_init not called.
NoInit ==
    [pc |-> "none", i |-> 0, now |-> 0, time_backwards |-> 0, count_var |-> 0,
     count_mod |-> 0, delta_sum |-> 0, old_delta |-> 0, ret |-> "none",
     step100 |-> TRUE, zero |-> FALSE,
     hback |-> 0, warmback |-> FALSE, hsame |-> TRUE]

Init ==
    /\ ec = "NULL"
    /\ data = 0 /\ old_data = 0 /\ prev_time = 0 /\ fips_fail = 0
    /\ osr = 0 /\ stir = 0 /\ disable_unbias = 0
    /\ mem = FALSE /\ memlocation = 0
    /\ fips_enabled \in BOOLEAN
    /\ pc = "idle" /\ stack = <<>> /\ k = 0
    /\ len = 0 /\ orig_len = 0 /\ buf = <<>> /\ ret = 0
    /\ result = NoResult
    /\ trace = <<>> /\ lastOut = {} /\ nmeas = 0 /\ acc = 0
    /\ args = NoArgs /\ reads = 0 /\ zeros = TRUE /\ pass = NoPass
    /\ init = NoInit
    /\ pure = NoCall
    /\ rngd = NoRngd

\* --------------------------------------------------------- noise sources
\* The walk of jent_memaccess without the wrap.
RECURSIVE MemWalk_nowrap(_, _)
MemWalk_nowrap(loc, i) ==
    IF i < memaccessloops
    THEN MemWalk_nowrap(loc + memblocksize - 1, i + 1)
    ELSE loc

\* The advance of ec->memlocation by a whole block.
WalkNext_block(loc, blocksize, blocks) ==
    (loc + blocksize) % (blocksize * blocks)

\* The advance of ec->memlocation after one access (lines 217-218).
WalkNext(loc, blocksize, blocks) ==
    (loc + blocksize - 1) % (blocksize * blocks)

\* jent_memaccess: the new ec->memlocation after memaccessloops accesses
\* (the bytes of ec->mem are only incremented and never read back).
RECURSIVE MemWalk(_, _)
MemWalk(loc, i) ==
    IF i < memaccessloops
    THEN MemWalk(WalkNext(loc, memblocksize, memblocks), i + 1)
    ELSE loc

jent_memaccess(loc) == IF ~mem THEN loc ELSE MemWalk(loc, 0)

\* jent_measure_jitter with ec->prev_time = prev: t is the time stamp it
\* reads, ts the one jent_loop_shuffle reads inside jent_fold_time.
jent_measure_jitter(prev, t, ts) ==
    LET delta == (t - prev) % U64
    IN  jent_fold_time(data, delta, 0, ts).folded

\* The value jent_unbiased_bit returns for the pair of samples a, b (a # b).
UnbiasedOf(a, b) == IF a = 1 THEN 1 ELSE 0

\* The accumulation step without the rotation.
Accumulate_norol(d, sample) == Xor(d, sample)

\* The accumulation step of jent_gen_entropy.
Accumulate(d, sample) == rol64(Xor(d, sample), TIME_ENTROPY_BITS)

\* ----------------------------------------------------- jent_gen_entropy
\* GenSample that does not advance the loop counter.
GenSample_stuck ==
    /\ pc = "gen" /\ k < GenRounds(osr) /\ disable_unbias = 1
    /\ \E tp \in TimerVals, t \in TimerVals, ts \in TimerVals :
         LET prev == IF k = 0 THEN tp ELSE prev_time
             n == IF k = 0 THEN 2 ELSE 1
             sample == jent_measure_jitter(prev, t, ts)
         IN  /\ data' = Accumulate(data, sample)
             /\ acc' = IF stack = <<"read_ret">> THEN Accumulate(acc, sample) ELSE acc
             /\ prev_time' = t
             /\ memlocation' = IF k = 0
                               THEN jent_memaccess(jent_memaccess(memlocation))
                               ELSE jent_memaccess(memlocation)
             /\ nmeas' = Count(nmeas, n)
             /\ zeros' = (zeros /\ sample = 0)
             /\ pass' = [throw |-> IF k = 0 /\ pass.throw < 2
                                   THEN pass.throw + 1 ELSE pass.throw,
                         fresh |-> TRUE,
                         stale |-> pass.stale \/ (k # 0 /\ ~pass.fresh)]
    /\ k' = k
    /\ UNCHANGED <<ec, old_data, fips_fail, osr, stir, disable_unbias, mem,
                   fips_enabled, pc, stack, len, orig_len, buf, ret, result,
                   trace, lastOut>>
    /\ UNCHANGED <<args, reads>>
    /\ UNCHANGED <<initvars, auxvars>>

\* GenSample without the priming measurement of the first iteration.
GenSample_noprime ==
    /\ pc = "gen" /\ k < GenRounds(osr) /\ disable_unbias = 1
    /\ \E t \in TimerVals, ts \in TimerVals :
         LET sample == jent_measure_jitter(prev_time, t, ts)
         IN  /\ data' = Accumulate(data, sample)
             /\ acc' = IF stack = <<"read_ret">> THEN Accumulate(acc, sample) ELSE acc
             /\ prev_time' = t
             /\ memlocation' = jent_memaccess(memlocation)
             /\ nmeas' = Count(nmeas, 1)
             /\ zeros' = (zeros /\ sample = 0)
             /\ pass' = [pass EXCEPT !.fresh = TRUE,
                                     !.stale = @ \/ ~pass.fresh]
    /\ k' = k + 1
    /\ UNCHANGED <<ec, old_data, fips_fail, osr, stir, disable_unbias, mem,
                   fips_enabled, pc, stack, len, orig_len, buf, ret, result,
                   trace, lastOut>>
    /\ UNCHANGED <<args, reads>>
    /\ UNCHANGED <<initvars, auxvars>>

\* Top of the loop with unbias disabled: the priming measurement in the first
\* iteration, one sample, the accumulation.
GenSample ==
    /\ pc = "gen" /\ k < GenRounds(osr) /\ disable_unbias = 1
    /\ \E tp \in TimerVals, t \in TimerVals, ts \in TimerVals :
         LET prev == IF k = 0 THEN tp ELSE prev_time
             n == IF k = 0 THEN 2 ELSE 1
             sample == jent_measure_jitter(prev, t, ts)
         IN  /\ data' = Accumulate(data, sample)
             /\ acc' = IF stack = <<"read_ret">> THEN Accumulate(acc, sample) ELSE acc
             /\ prev_time' = t
             /\ memlocation' = IF k = 0
                               THEN jent_memaccess(jent_memaccess(memlocation))
                               ELSE jent_memaccess(memlocation)
             /\ nmeas' = Count(nmeas, n)
             /\ zeros' = (zeros /\ sample = 0)
             /\ pass' = [throw |-> IF k = 0 /\ pass.throw < 2
                                   THEN pass.throw + 1 ELSE pass.throw,
                         fresh |-> TRUE,
                         stale |-> pass.stale \/ (k # 0 /\ ~pass.fresh)]
    /\ k' = k + 1
    /\ UNCHANGED <<ec, old_data, fips_fail, osr, stir, disable_unbias, mem,
                   fips_enabled, pc, stack, len, orig_len, buf, ret, result,
                   trace, lastOut>>
    /\ UNCHANGED <<args, reads>>
    /\ UNCHANGED <<initvars, auxvars>>

\* GenEnter without the priming measurement of the first iteration.
GenEnter_noprime ==
    /\ pc = "gen" /\ k < GenRounds(osr) /\ disable_unbias # 1
    /\ pc' = "unbias"
    /\ UNCHANGED <<ec, data, old_data, prev_time, fips_fail, osr, stir,
                   disable_unbias, mem, memlocation, fips_enabled, stack, k,
                   len, orig_len, buf, ret, result, trace, lastOut, nmeas,
                   acc>>
    /\ UNCHANGED lifevars
    /\ UNCHANGED <<initvars, auxvars>>

\* Top of the loop with unbias enabled: the priming measurement in the first
\* iteration, then into the loop of jent_unbiased_bit.
GenEnter ==
    /\ pc = "gen" /\ k < GenRounds(osr) /\ disable_unbias # 1
    /\ IF k = 0
       THEN \E t \in TimerVals :
              /\ prev_time' = t
              /\ memlocation' = jent_memaccess(memlocation)
              /\ nmeas' = Count(nmeas, 1)
              /\ pass' = [pass EXCEPT !.throw = IF @ < 2 THEN @ + 1 ELSE @,
                                      !.fresh = TRUE]
       ELSE UNCHANGED <<prev_time, memlocation, nmeas, pass>>
    /\ pc' = "unbias"
    /\ UNCHANGED <<ec, data, old_data, fips_fail, osr, stir, disable_unbias,
                   mem, fips_enabled, stack, k, len, orig_len, buf, ret,
                   result, trace, lastOut, acc>>
    /\ UNCHANGED <<args, reads, zeros>>
    /\ UNCHANGED <<initvars, auxvars>>

\* One turn of the do-while loop of jent_unbiased_bit: two measurements; the
\* loop goes on when they are equal, else the bit is accumulated.
jent_unbiased_bit ==
    /\ pc = "unbias"
    /\ \E ta \in TimerVals, tb \in TimerVals, ts \in TimerVals :
         LET a == jent_measure_jitter(prev_time, ta, ts)
             b == jent_measure_jitter(ta, tb, ts)
         IN  /\ prev_time' = tb
             /\ memlocation' = jent_memaccess(jent_memaccess(memlocation))
             /\ nmeas' = Count(nmeas, 2)
             /\ pass' = [pass EXCEPT !.fresh = TRUE,
                                     !.stale = @ \/ ~pass.fresh]
             /\ IF a = b
                THEN UNCHANGED <<data, k, pc, acc, zeros>>
                ELSE /\ data' = Accumulate(data, UnbiasedOf(a, b))
                     /\ acc' = IF stack = <<"read_ret">>
                               THEN Accumulate(acc, UnbiasedOf(a, b)) ELSE acc
                     /\ zeros' = (zeros /\ UnbiasedOf(a, b) = 0)
                     /\ k' = k + 1
                     /\ pc' = "gen"
    /\ UNCHANGED <<ec, old_data, fips_fail, osr, stir, disable_unbias, mem,
                   fips_enabled, stack, len, orig_len, buf, ret, result,
                   trace, lastOut>>
    /\ UNCHANGED <<args, reads>>
    /\ UNCHANGED <<initvars, auxvars>>

\* GenReturn without the stir step.
GenReturn_nostir ==
    /\ pc = "gen" /\ ~(k < GenRounds(osr))
    /\ pc' = Head(stack)
    /\ stack' = Tail(stack)
    /\ trace' = Append(trace, "gen")
    /\ UNCHANGED <<ec, data, old_data, prev_time, fips_fail, osr, stir,
                   disable_unbias, mem, memlocation, fips_enabled, k, len,
                   orig_len, buf, ret, result, lastOut, nmeas, acc>>
    /\ pass' = NoPass
    /\ UNCHANGED <<args, reads, zeros>>
    /\ UNCHANGED <<initvars, auxvars>>

\* End of the loop: the stir step when enabled, and the return.
GenReturn ==
    /\ pc = "gen" /\ ~(k < GenRounds(osr))
    /\ data' = IF stir # 0 THEN jent_stir_pool(data) ELSE data
    /\ pc' = Head(stack)
    /\ stack' = Tail(stack)
    /\ trace' = Append(trace, "gen")
    /\ UNCHANGED <<ec, old_data, prev_time, fips_fail, osr, stir,
                   disable_unbias, mem, memlocation, fips_enabled, k, len,
                   orig_len, buf, ret, result, lastOut, nmeas, acc>>
    /\ pass' = NoPass
    /\ UNCHANGED <<args, reads, zeros>>
    /\ UNCHANGED <<initvars, auxvars>>

\* ------------------------------------------------------- jent_fips_test
\* The comparison with the previous value that never fails.
FipsCompare_pass ==
    /\ old_data' = data
    /\ ret' = 0
    /\ trace' = Append(trace, "pass")
    /\ UNCHANGED fips_fail
    /\ pc' = Head(stack)
    /\ stack' = Tail(stack)
    /\ UNCHANGED k

\* Lines 423-429: the comparison with the previous value.
FipsCompare ==
    /\ IF data = old_data
       THEN /\ fips_fail' = 1
            /\ ret' = EFIPS
            /\ trace' = Append(trace, "fail")
            /\ UNCHANGED old_data
       ELSE /\ old_data' = data
            /\ ret' = 0
            /\ trace' = Append(trace, "pass")
            /\ UNCHANGED fips_fail
    /\ pc' = Head(stack)
    /\ stack' = Tail(stack)
    /\ UNCHANGED k

\* jent_fips_test without the check of ec->fips_fail at its entry.
jent_fips_test_nosticky ==
    /\ pc = "fips_test"
    /\ IF ~fips_enabled
       THEN /\ ret' = 0 /\ pc' = Head(stack) /\ stack' = Tail(stack)
            /\ trace' = Append(trace, "pass")
            /\ UNCHANGED <<old_data, fips_fail, k>>
       ELSE IF old_data = 0
       THEN /\ old_data' = data
            /\ pc' = "gen" /\ k' = 0
            /\ stack' = <<"fips_cmp">> \o stack
            /\ trace' = Append(trace, "prime")
            /\ UNCHANGED <<fips_fail, ret>>
       ELSE FipsCompare
    /\ UNCHANGED <<ec, data, prev_time, osr, stir, disable_unbias, mem,
                   memlocation, fips_enabled, len, orig_len, buf, result,
                   lastOut, nmeas, acc>>
    /\ UNCHANGED lifevars
    /\ UNCHANGED <<initvars, auxvars>>

\* jent_fips_test that lets the caller start over after a failure: the
\* failure is reported once and ec->fips_fail cleared.
jent_fips_test_reset ==
    /\ pc = "fips_test"
    /\ IF ~fips_enabled
       THEN /\ ret' = 0 /\ pc' = Head(stack) /\ stack' = Tail(stack)
            /\ trace' = Append(trace, "pass")
            /\ UNCHANGED <<old_data, fips_fail, k>>
       ELSE IF fips_fail # 0
       THEN /\ ret' = EFIPS /\ pc' = Head(stack) /\ stack' = Tail(stack)
            /\ trace' = Append(trace, "dead")
            /\ fips_fail' = 0
            /\ UNCHANGED <<old_data, k>>
       ELSE IF old_data = 0
       THEN /\ old_data' = data
            /\ pc' = "gen" /\ k' = 0
            /\ stack' = <<"fips_cmp">> \o stack
            /\ trace' = Append(trace, "prime")
            /\ UNCHANGED <<fips_fail, ret>>
       ELSE FipsCompare
    /\ UNCHANGED <<ec, data, prev_time, osr, stir, disable_unbias, mem,
                   memlocation, fips_enabled, len, orig_len, buf, result,
                   lastOut, nmeas, acc>>
    /\ UNCHANGED lifevars
    /\ UNCHANGED <<initvars, auxvars>>

\* jent_fips_test without the gate of jent_fips_enabled.
jent_fips_test_nogate ==
    /\ pc = "fips_test"
    /\ IF fips_fail # 0
       THEN /\ ret' = EFIPS /\ pc' = Head(stack) /\ stack' = Tail(stack)
            /\ trace' = Append(trace, "dead")
            /\ UNCHANGED <<old_data, fips_fail, k>>
       ELSE IF old_data = 0
       THEN /\ old_data' = data
            /\ pc' = "gen" /\ k' = 0
            /\ stack' = <<"fips_cmp">> \o stack
            /\ trace' = Append(trace, "prime")
            /\ UNCHANGED <<fips_fail, ret>>
       ELSE FipsCompare
    /\ UNCHANGED <<ec, data, prev_time, osr, stir, disable_unbias, mem,
                   memlocation, fips_enabled, len, orig_len, buf, result,
                   lastOut, nmeas, acc>>
    /\ UNCHANGED lifevars
    /\ UNCHANGED <<initvars, auxvars>>

\* Entry of jent_fips_test up to the generation pass that primes the test.
jent_fips_test ==
    /\ pc = "fips_test"
    /\ IF ~fips_enabled
       THEN /\ ret' = 0 /\ pc' = Head(stack) /\ stack' = Tail(stack)
            /\ trace' = Append(trace, "pass")
            /\ UNCHANGED <<old_data, fips_fail, k>>
       ELSE IF fips_fail # 0
       THEN /\ ret' = EFIPS /\ pc' = Head(stack) /\ stack' = Tail(stack)
            /\ trace' = Append(trace, "dead")
            /\ UNCHANGED <<old_data, fips_fail, k>>
       ELSE IF old_data = 0
       THEN /\ old_data' = data
            /\ pc' = "gen" /\ k' = 0
            /\ stack' = <<"fips_cmp">> \o stack
            /\ trace' = Append(trace, "prime")
            /\ UNCHANGED <<fips_fail, ret>>
       ELSE FipsCompare
    /\ UNCHANGED <<ec, data, prev_time, osr, stir, disable_unbias, mem,
                   memlocation, fips_enabled, len, orig_len, buf, result,
                   lastOut, nmeas, acc>>
    /\ UNCHANGED lifevars
    /\ UNCHANGED <<initvars, auxvars>>

\* jent_fips_test that returns success after the priming generation pass.
FipsPrimed_nocompare ==
    /\ pc = "fips_cmp"
    /\ ret' = 0
    /\ trace' = Append(trace, "pass")
    /\ pc' = Head(stack)
    /\ stack' = Tail(stack)
    /\ UNCHANGED <<old_data, fips_fail, k>>
    /\ UNCHANGED <<ec, data, prev_time, osr, stir, disable_unbias, mem,
                   memlocation, fips_enabled, len, orig_len, buf, result,
                   lastOut, nmeas, acc>>
    /\ UNCHANGED lifevars
    /\ UNCHANGED <<initvars, auxvars>>

\* jent_fips_test after the priming generation pass.
FipsPrimed ==
    /\ pc = "fips_cmp"
    /\ FipsCompare
    /\ UNCHANGED <<ec, data, prev_time, osr, stir, disable_unbias, mem,
                   memlocation, fips_enabled, len, orig_len, buf, result,
                   lastOut, nmeas, acc>>
    /\ UNCHANGED lifevars
    /\ UNCHANGED <<initvars, auxvars>>

\* ---------------------------------------------------- jent_read_entropy
\* The head of the while loop as built with
\* CONFIG_CRYPTO_CPU_JITTERENTROPY_SECURE_MEMORY: no pass after the loop.
ReadLoop_secure(l) ==
    /\ k' = 0 /\ acc' = 0
    /\ IF 0 < l
       THEN pc' = "gen" /\ stack' = <<"fips_test", "read_copy">>
       ELSE pc' = "read_ret" /\ stack' = <<>>

\* The head of the while loop: one more round, or the pass after the loop.
ReadLoop(l) ==
    /\ pc' = "gen" /\ k' = 0 /\ acc' = 0
    /\ stack' = IF 0 < l THEN <<"fips_test", "read_copy">> ELSE <<"read_ret">>

\* memcpy(p, &ec->data, tocopy) at offset p of the buffer
Memcpy(b, p, d, tocopy) ==
    [j \in 1 .. Len(b) |->
        IF p < j /\ j <= p + tocopy THEN {Shr(d, j - p - 1) % 2} ELSE b[j]]

jent_read_entropy(l) ==
    /\ pc = "idle"
    /\ IF ec = "NULL"
       THEN /\ result' = [op |-> "read", ok |-> FALSE, val |-> ENULL]
            /\ orig_len' = l
            /\ UNCHANGED <<pc, stack, k, len, buf, ret, trace, nmeas, acc>>
       ELSE /\ len' = l /\ orig_len' = l /\ ret' = 0
            /\ buf' = [j \in 1 .. l |-> {}]
            /\ result' = NoResult
            /\ trace' = <<>> /\ nmeas' = 0
            /\ ReadLoop(l)
    /\ UNCHANGED <<colvars, fips_enabled, lastOut>>
    /\ reads' = IF ec = "NULL" \/ reads = 2 THEN reads ELSE reads + 1
    /\ UNCHANGED <<args, zeros, pass>>
    /\ UNCHANGED <<initvars, auxvars>>

\* ReadCopy with the copy moved before the check of the test's result.
ReadCopy_copyfirst ==
    /\ pc = "read_copy"
    /\ LET tocopy == IF WORD_BYTES < len THEN WORD_BYTES ELSE len
       IN  /\ buf' = Memcpy(buf, orig_len - len, data, tocopy)
           /\ IF 0 > ret
              THEN /\ pc' = "read_err"
                   /\ UNCHANGED <<stack, k, len, trace, lastOut, result, acc>>
              ELSE /\ len' = len - tocopy
                   /\ lastOut' = IF tocopy = WORD_BYTES THEN {data} ELSE {}
                   /\ trace' = Append(trace, "copy")
                   /\ ReadLoop(len - tocopy)
                   /\ UNCHANGED result
    /\ UNCHANGED <<colvars, fips_enabled, orig_len, ret, nmeas>>
    /\ UNCHANGED lifevars
    /\ UNCHANGED <<initvars, auxvars>>

\* After jent_fips_test: the error return, or the copy and the loop head.
ReadCopy ==
    /\ pc = "read_copy"
    /\ IF 0 > ret
       THEN /\ pc' = "read_err"
            /\ UNCHANGED <<stack, k, len, buf, trace, lastOut, result, acc>>
       ELSE LET tocopy == IF WORD_BYTES < len THEN WORD_BYTES ELSE len
            IN  /\ buf' = Memcpy(buf, orig_len - len, data, tocopy)
                /\ len' = len - tocopy
                /\ lastOut' = IF tocopy = WORD_BYTES THEN {data} ELSE {}
                /\ trace' = Append(trace, "copy")
                /\ ReadLoop(len - tocopy)
                /\ UNCHANGED result
    /\ UNCHANGED <<colvars, fips_enabled, orig_len, ret, nmeas>>
    /\ UNCHANGED lifevars
    /\ UNCHANGED <<initvars, auxvars>>

\* The returns of jent_read_entropy: orig_len as an int after the last
\* generation pass, or the error of jent_fips_test.  The locals and the
\* history of the call end with it.
ReadReturn ==
    /\ pc \in {"read_ret", "read_err"}
    /\ pc' = "idle"
    /\ result' = IF pc = "read_ret"
                  THEN [op |-> "read", ok |-> TRUE, val |-> ToInt(orig_len)]
                  ELSE [op |-> "read", ok |-> FALSE, val |-> ret]
    /\ k' = 0 /\ len' = 0 /\ buf' = <<>> /\ ret' = 0
    /\ trace' = <<>> /\ nmeas' = 0 /\ acc' = 0
    /\ UNCHANGED <<colvars, fips_enabled, stack, orig_len, lastOut>>
    /\ UNCHANGED lifevars
    /\ UNCHANGED <<initvars, auxvars>>

\* ----------------------------------------- jent_entropy_collector_alloc
\* jent_entropy_collector_alloc that stores the oversampling rate as given.
jent_entropy_collector_alloc_osr0(o, flags) ==
    /\ pc = "idle" /\ ec = "NULL"
    /\ ec' = "live"
    /\ data' = 0 /\ old_data' = 0 /\ prev_time' = 0 /\ fips_fail' = 0
    /\ memlocation' = 0
    /\ mem' = (JENT_DISABLE_MEMORY_ACCESS \notin flags)
    /\ osr' = o
    /\ stir' = IF JENT_DISABLE_STIR \in flags THEN 0 ELSE 1
    /\ disable_unbias' = IF JENT_DISABLE_UNBIAS \in flags THEN 1 ELSE 0
    /\ pc' = "gen" /\ k' = 0
    /\ stack' = <<"fips_test", "alloc_ret">>
    /\ result' = NoResult
    /\ trace' = <<>> /\ lastOut' = {} /\ nmeas' = 0
    /\ orig_len' = 0
    /\ UNCHANGED <<fips_enabled, len, buf, ret, acc>>
    /\ args' = [osr |-> o, flags |-> flags]
    /\ reads' = 0 /\ zeros' = TRUE
    /\ UNCHANGED pass
    /\ UNCHANGED <<initvars, auxvars>>

jent_entropy_collector_alloc(o, flags) ==
    /\ pc = "idle" /\ ec = "NULL"
    /\ ec' = "live"
    /\ data' = 0 /\ old_data' = 0 /\ prev_time' = 0 /\ fips_fail' = 0
    /\ memlocation' = 0
    /\ mem' = (JENT_DISABLE_MEMORY_ACCESS \notin flags)
    /\ osr' = IF o = 0 THEN 1 ELSE o
    /\ stir' = IF JENT_DISABLE_STIR \in flags THEN 0 ELSE 1
    /\ disable_unbias' = IF JENT_DISABLE_UNBIAS \in flags THEN 1 ELSE 0
    /\ pc' = "gen" /\ k' = 0
    /\ stack' = <<"fips_test", "alloc_ret">>
    /\ result' = NoResult
    /\ trace' = <<>> /\ lastOut' = {} /\ nmeas' = 0
    /\ orig_len' = 0
    /\ UNCHANGED <<fips_enabled, len, buf, ret, acc>>
    /\ args' = [osr |-> o, flags |-> flags]
    /\ reads' = 0 /\ zeros' = TRUE
    /\ UNCHANGED pass
    /\ UNCHANGED <<initvars, auxvars>>

\* jent_zalloc returned NULL: no collector.
AllocFail ==
    /\ pc = "idle" /\ ec = "NULL"
    /\ result' = [op |-> "alloc", ok |-> FALSE, val |-> 0]
    /\ orig_len' = 0
    /\ UNCHANGED <<colvars, fips_enabled, pc, stack, k, len, buf, ret,
                   histvars>>
    /\ UNCHANGED lifevars
    /\ UNCHANGED <<initvars, auxvars>>

\* The result of jent_fips_test is dropped and the collector returned.
AllocReturn ==
    /\ pc = "alloc_ret"
    /\ pc' = "idle"
    /\ result' = [op |-> "alloc", ok |-> TRUE, val |-> 0]
    /\ k' = 0 /\ ret' = 0 /\ trace' = <<>> /\ nmeas' = 0
    /\ UNCHANGED <<colvars, fips_enabled, stack, len, orig_len, buf, lastOut,
                   acc>>
    /\ UNCHANGED lifevars
    /\ UNCHANGED <<initvars, auxvars>>

\* ------------------------------------------ jent_entropy_collector_free
\* The steps of jent_entropy_collector_free are recorded in trace: the reads
\* and writes of the struct and of the memory block, and their release.
\* jent_zfree zeroes the block it is given and then releases it.
\* jent_entropy_collector_free that releases the struct before ec->mem.
jent_entropy_collector_free_structfirst ==
    /\ pc = "idle" /\ ec = "live"
    /\ trace' = <<"zero_struct", "free_struct", "read_struct">>
                 \o (IF mem THEN <<"zero_mem", "free_mem">> ELSE <<>>)
                 \o <<"write_struct">>
    /\ mem' = FALSE
    /\ pc' = "free_struct"
    /\ UNCHANGED <<ec, data, old_data, prev_time, fips_fail, osr, stir,
                   disable_unbias, memlocation, fips_enabled, stack, k, len,
                   orig_len, buf, ret, result, lastOut, nmeas, acc>>
    /\ UNCHANGED lifevars
    /\ UNCHANGED <<initvars, auxvars>>

\* Lines 554-556: ec->mem is read and, when set, zeroed and released; then
\* ec->mem = NULL.
jent_entropy_collector_free ==
    /\ pc = "idle" /\ ec = "live"
    /\ trace' = <<"read_struct">>
                 \o (IF mem THEN <<"zero_mem", "free_mem">> ELSE <<>>)
                 \o <<"write_struct">>
    /\ mem' = FALSE
    /\ pc' = "free_struct"
    /\ UNCHANGED <<ec, data, old_data, prev_time, fips_fail, osr, stir,
                   disable_unbias, memlocation, fips_enabled, stack, k, len,
                   orig_len, buf, ret, result, lastOut, nmeas, acc>>
    /\ UNCHANGED lifevars
    /\ UNCHANGED <<initvars, auxvars>>

\* Lines 557-559: the struct is zeroed and released.
FreeStruct ==
    /\ pc = "free_struct"
    /\ trace' = trace \o <<"zero_struct", "free_struct">>
    /\ ec' = "NULL"
    /\ data' = 0 /\ old_data' = 0 /\ prev_time' = 0 /\ fips_fail' = 0
    /\ osr' = 0 /\ stir' = 0 /\ disable_unbias' = 0
    /\ mem' = FALSE /\ memlocation' = 0
    /\ lastOut' = {} /\ orig_len' = 0
    /\ pc' = "free_ret"
    /\ UNCHANGED <<fips_enabled, stack, k, len, buf, ret, result, nmeas, acc>>
    /\ args' = NoArgs /\ reads' = 0 /\ zeros' = TRUE
    /\ UNCHANGED pass
    /\ UNCHANGED <<initvars, auxvars>>

\* The return of jent_entropy_collector_free.
FreeReturn ==
    /\ pc = "free_ret"
    /\ pc' = "idle"
    /\ result' = [op |-> "free", ok |-> TRUE, val |-> 0]
    /\ trace' = <<>>
    /\ UNCHANGED <<colvars, fips_enabled, stack, k, len, orig_len, buf, ret,
                   lastOut, nmeas, acc>>
    /\ UNCHANGED lifevars
    /\ UNCHANGED <<initvars, auxvars>>

Next ==
    \/ \E o \in 0 .. MaxOsr, flags \in FlagWords :
          jent_entropy_collector_alloc(o, flags)
    \/ AllocFail
    \/ AllocReturn
    \/ \E l \in Lens : jent_read_entropy(l)
    \/ ReadCopy
    \/ ReadReturn
    \/ GenSample
    \/ GenEnter
    \/ jent_unbiased_bit
    \/ GenReturn
    \/ jent_fips_test
    \/ FipsPrimed
    \/ jent_entropy_collector_free
    \/ FreeStruct
    \/ FreeReturn

Spec == Init /\ [][Next]_vars

\* ---------------------------------------------------- jent_entropy_init
\* The time stamps of jent_entropy_init are words of TIME_BITS bits.
T64 == 2 ^ TIME_BITS

\* What the timer may add between two calls of jent_get_nstime (the same
\* amount throughout one iteration of the test loop), and where it may stand
\* at the first call.
InitSteps == {-1, 0, 1, COARSE}
InitTimes == {0, 1, T64 - (COARSE + (COARSE \div 2))}

\* Entry: the locals are zeroed; the timer stands at t.
InitStart(t) ==
    /\ init.pc \in {"none", "done"}
    /\ init' = [NoInit EXCEPT !.pc = "loop", !.now = t]
    /\ UNCHANGED <<colvars, fips_enabled, callvars, histvars, lifevars,
                   auxvars>>

\* The result of an iteration of the loop that returns early.
InitEarly(time, time2, delta) ==
    IF time = 0 \/ time2 = 0 THEN "ENOTIME"
    ELSE IF delta = 0 THEN "ECOARSETIME"
    ELSE IF TIME_ENTROPY_BITS > delta THEN "EMINVARIATION"
    ELSE "none"

\* One iteration of the loop: the timer is read for time, inside
\* jent_loop_shuffle (called by jent_fold_time) and for time2; s1 and s2 are
\* what it adds between these calls and s3 what it adds until the next one.
\* History: hback counts the measured iterations whose second time stamp is
\* not after the first, warmback records such an iteration during warm-up,
\* hsame that all measured deltas so far are the same.
InitIter(s1, s2, s3) ==
    /\ init.pc = "loop" /\ (TESTLOOPCOUNT + CLEARCACHE) > init.i
    /\ LET time == init.now
           ts == (time + s1) % T64
           loops == jent_fold_time(-1, time % U64, 2 ^ MIN_FOLD_LOOP_BIT, ts % U64).loops
           time2 == (ts + s2) % T64
           delta == (time2 - time) % T64
           early == InitEarly(time, time2, delta)
           seen == [init EXCEPT !.now = (time2 + s3) % T64,
                                !.step100 = init.step100 /\ s1 = COARSE
                                            /\ s2 = COARSE /\ s3 = COARSE,
                                !.zero = init.zero \/ time = 0 \/ time2 = 0]
           var == IF delta > init.old_delta
                  THEN (init.delta_sum + (delta - init.old_delta)) % T64
                  ELSE (init.delta_sum + (init.old_delta - delta)) % T64
       IN  IF early # "none"
           THEN init' = [seen EXCEPT !.pc = "done", !.ret = early]
           ELSE IF CLEARCACHE > init.i
           THEN init' = [seen EXCEPT !.i = init.i + 1,
                                     !.warmback = @ \/ time2 <= time]
           ELSE init' =
                  [seen EXCEPT
                     !.i = init.i + 1,
                     !.time_backwards = IF ~(time2 > time) THEN @ + 1 ELSE @,
                     !.count_mod = IF delta % COARSE = 0 THEN @ + 1 ELSE @,
                     !.count_var = IF init.i # 0 /\ delta # init.old_delta
                                   THEN @ + 1 ELSE @,
                     !.delta_sum = IF init.i # 0 THEN var ELSE @,
                     !.old_delta = delta,
                     !.hback = IF time2 <= time THEN @ + 1 ELSE @,
                     !.hsame = @ /\ (init.i = CLEARCACHE \/ delta = init.old_delta)]
    /\ UNCHANGED <<colvars, fips_enabled, callvars, histvars, lifevars,
                   auxvars>>

\* The checks after the loop without the last one, of count_mod.
InitFinish_nomod ==
    /\ init.pc = "loop" /\ ~((TESTLOOPCOUNT + CLEARCACHE) > init.i)
    /\ LET notavg == IF init.delta_sum \div TESTLOOPCOUNT = 0 THEN 1 ELSE 0
       IN  init' = [init EXCEPT
                      !.pc = "done",
                      !.ret = IF 3 < init.time_backwards THEN "ENOMONOTONIC"
                              ELSE IF init.delta_sum = 0 THEN "EVARVAR"
                              ELSE IF notavg > TIME_ENTROPY_BITS THEN "EMINVARVAR"
                              ELSE "0"]
    /\ UNCHANGED <<colvars, fips_enabled, callvars, histvars, lifevars,
                   auxvars>>

\* The checks after the loop with a tolerance of two backward steps.
InitFinish_tolerance ==
    /\ init.pc = "loop" /\ ~((TESTLOOPCOUNT + CLEARCACHE) > init.i)
    /\ LET notavg == IF init.delta_sum \div TESTLOOPCOUNT = 0 THEN 1 ELSE 0
       IN  init' = [init EXCEPT
                      !.pc = "done",
                      !.ret = IF 2 < init.time_backwards THEN "ENOMONOTONIC"
                              ELSE IF init.delta_sum = 0 THEN "EVARVAR"
                              ELSE IF notavg > TIME_ENTROPY_BITS THEN "EMINVARVAR"
                              ELSE IF ((TESTLOOPCOUNT \div 10) * 9) < init.count_mod
                              THEN "ECOARSETIME"
                              ELSE "0"]
    /\ UNCHANGED <<colvars, fips_enabled, callvars, histvars, lifevars,
                   auxvars>>

\* The checks after the loop.  In !(delta_sum / TESTLOOPCOUNT) >
\* TIME_ENTROPY_BITS the negation applies to the quotient alone.
InitFinish ==
    /\ init.pc = "loop" /\ ~((TESTLOOPCOUNT + CLEARCACHE) > init.i)
    /\ LET notavg == IF init.delta_sum \div TESTLOOPCOUNT = 0 THEN 1 ELSE 0
       IN  init' = [init EXCEPT
                      !.pc = "done",
                      !.ret = IF 3 < init.time_backwards THEN "ENOMONOTONIC"
                              ELSE IF init.delta_sum = 0 THEN "EVARVAR"
                              ELSE IF notavg > TIME_ENTROPY_BITS THEN "EMINVARVAR"
                              ELSE IF ((TESTLOOPCOUNT \div 10) * 9) < init.count_mod
                              THEN "ECOARSETIME"
                              ELSE "0"]
    /\ UNCHANGED <<colvars, fips_enabled, callvars, histvars, lifevars,
                   auxvars>>

NextInit ==
    \/ \E t \in InitTimes : InitStart(t)
    \/ \E s \in InitSteps : InitIter(s, s, s)
    \/ InitFinish

SpecInit == Init /\ [][NextInit]_vars

\* The threads of the library run on: a call in progress takes its next step.
Running ==
    \/ AllocReturn \/ ReadCopy \/ ReadReturn \/ GenSample \/ GenEnter
    \/ jent_unbiased_bit \/ GenReturn \/ jent_fips_test \/ FipsPrimed
    \/ FreeStruct \/ FreeReturn

FairSpec == Spec /\ WF_vars(Running)

\* ------------------------------------------- static functions on their own
\* Everything but the call of a static function.
notpure == <<colvars, fips_enabled, callvars, histvars, lifevars, initvars,
             rngd>>

\* Every word of PURE_BITS bits; the pools (-1: no collector) and the timer
\* readings that the loop shuffle is run with.
PureWords == 0 .. ((2 ^ PURE_BITS) - 1)
PurePools == {-1, 0, (2 ^ PURE_BITS) \div 3, (2 ^ PURE_BITS) - 1}
PureTimes == {0, 1, 6, (2 ^ PURE_BITS) - 2}

\* Values of a folded time delta: TIME_ENTROPY_BITS bits.
Samples == 0 .. ((2 ^ TIME_ENTROPY_BITS) - 1)

\* The accumulation steps of jent_gen_entropy (lines 387-390) from the pool
\* d: d0 is the pool before the first step, k counts the steps, zero records
\* that every sample so far was 0.
AccStart(d) ==
    /\ pure.op = "none" /\ rngd.pc = "off"
    /\ pure' = [op |-> "acc", d0 |-> d, d |-> d, k |-> 0, zero |-> TRUE]
    /\ UNCHANGED notpure

AccStep(sample) ==
    /\ pure.op = "acc" /\ pure.k < MaxAcc
    /\ pure' = [pure EXCEPT !.d = Accumulate(pure.d, sample),
                            !.k = @ + 1,
                            !.zero = @ /\ sample = 0]
    /\ UNCHANGED notpure

\* jent_unbiased_bit in a build with TIME_ENTROPY_BITS = teb: the samples
\* are the values jent_measure_jitter returns, of teb bits each.
UnbiasStart(teb, dis) ==
    /\ pure.op = "none" /\ rngd.pc = "off"
    /\ pure' = [op |-> "unbias", teb |-> teb, disable_unbias |-> dis,
                turns |-> 0, a |-> 0, b |-> 0, out |-> -1]
    /\ UNCHANGED notpure

\* With unbias disabled: one measurement, returned as it is.
UnbiasOne(a) ==
    /\ pure.op = "unbias" /\ pure.out = -1 /\ pure.disable_unbias = 1
    /\ a < 2 ^ pure.teb
    /\ pure' = [pure EXCEPT !.a = a, !.out = a]
    /\ UNCHANGED notpure

\* One turn of the do-while loop: it goes on after an equal pair.
UnbiasPair(a, b) ==
    /\ pure.op = "unbias" /\ pure.out = -1 /\ pure.disable_unbias # 1
    /\ a < 2 ^ pure.teb /\ b < 2 ^ pure.teb
    /\ pure' = IF a = b
               THEN [pure EXCEPT !.turns = IF @ < 2 THEN @ + 1 ELSE @]
               ELSE [pure EXCEPT !.a = a, !.b = b, !.out = UnbiasedOf(a, b)]
    /\ UNCHANGED notpure

\* jent_fold_time on words of PURE_BITS bits in a build with
\* TIME_ENTROPY_BITS = teb: ecdata is the pool of the collector or -1 for
\* NULL, ts the timer reading jent_loop_shuffle takes.
FoldCall(teb, time, loop_cnt, ecdata, ts) ==
    /\ pure.op = "none" /\ rngd.pc = "off"
    /\ LET shuffled == LoopShuffle(PURE_BITS, ecdata, ts, MAX_FOLD_LOOP_BIT,
                                   MIN_FOLD_LOOP_BIT)
           fold_loop_cnt == IF loop_cnt # 0 THEN loop_cnt ELSE shuffled
       IN  pure' = [op |-> "fold", teb |-> teb, time |-> time,
                    loop_cnt |-> loop_cnt, ecdata |-> ecdata, ts |-> ts,
                    loops |-> fold_loop_cnt,
                    folded |-> FoldLoops(PURE_BITS, teb, time, 0,
                                         fold_loop_cnt, 0)]
    /\ UNCHANGED notpure

\* jent_loop_shuffle on words of PURE_BITS bits: ecdata is the pool of the
\* collector or -1 for NULL, t the timer reading.
ShuffleCall(ecdata, t, bits, min) ==
    /\ pure.op = "none" /\ rngd.pc = "off"
    /\ pure' = [op |-> "shuffle", ecdata |-> ecdata, t |-> t, bits |-> bits,
                min |-> min,
                out |-> LoopShuffle(PURE_BITS, ecdata, t, bits, min)]
    /\ UNCHANGED notpure

\* The loop of jent_memaccess on a memory of blocks blocks of blocksize
\* bytes, from ec->memlocation = loc: every turn touches the byte at
\* memlocation and advances; touched is the set of the bytes touched.
WalkStart(blocksize, blocks, loc) ==
    /\ pure.op = "none" /\ rngd.pc = "off"
    /\ loc < blocksize * blocks
    /\ pure' = [op |-> "walk", blocksize |-> blocksize, blocks |-> blocks,
                start |-> loc, loc |-> loc, i |-> 0, touched |-> {}]
    /\ UNCHANGED notpure

WalkStep ==
    /\ pure.op = "walk" /\ pure.i < pure.blocksize * pure.blocks
    /\ pure' = [pure EXCEPT
                  !.touched = @ \cup {pure.loc},
                  !.loc = WalkNext(pure.loc, pure.blocksize, pure.blocks),
                  !.i = @ + 1]
    /\ UNCHANGED notpure

\* The pools jent_stir_pool is called with on its own.
StirPools ==
    SUBSET ((0 .. (MaxStirBit - 1)) \cup ((U64_BITS - MaxStirBit) .. (U64_BITS - 1)))

\* Three calls of jent_stir_pool at its full width, on the pools d1, d2 and
\* d1 ^ d2, turn by turn: m1, m2 and mx are their mixers after i turns.
StirCall(d1, d2) ==
    /\ pure.op = "none" /\ rngd.pc = "off"
    /\ pure' = [op |-> "stir", d1 |-> d1, d2 |-> d2, i |-> 0,
                m1 |-> HexBits(STIR_MIXER, U64_BITS),
                m2 |-> HexBits(STIR_MIXER, U64_BITS),
                mx |-> HexBits(STIR_MIXER, U64_BITS)]
    /\ UNCHANGED notpure

StirStep ==
    /\ pure.op = "stir" /\ pure.i < U64_BITS
    /\ pure' = [pure EXCEPT
                  !.m1 = StirTurn(U64_BITS, pure.d1, @, pure.i),
                  !.m2 = StirTurn(U64_BITS, pure.d2, @, pure.i),
                  !.mx = StirTurn(U64_BITS, SymDiff(pure.d1, pure.d2), @, pure.i),
                  !.i = @ + 1]
    /\ UNCHANGED notpure

StirEnd ==
    /\ pure.op = "stir" /\ pure.i = U64_BITS
    /\ pure' = [op |-> "stirred", d1 |-> pure.d1, d2 |-> pure.d2,
                out1 |-> StirXor(pure.d1, pure.m1),
                out2 |-> StirXor(pure.d2, pure.m2),
                outx |-> StirXor(SymDiff(pure.d1, pure.d2), pure.mx)]
    /\ UNCHANGED notpure

\* The highest set bit of a word that is not 0.
TopBit(x) == CHOOSE i \in x : \A j \in x : j <= i

\* The XOR of the words basis[b], b in bs.
XorAll(bs, basis) ==
    {i \in 0 .. (U64_BITS - 1) :
        Cardinality({b \in bs : i \in basis[b]}) % 2 = 1}

\* The pool of the c-th call of the calls below: 0, then one set bit.
SpanPool(c) == IF c = -1 THEN {} ELSE {c}

\* jent_stir_pool at its full width on the pool 0 and then on the pools
\* with one set bit, turn by turn.  zero is the output for the pool 0.
\* basis keeps, for the pools so far, the change of the output against zero
\* unless it is an XOR of changes kept before: basis[b] has bit b set and
\* none of the other bits of DOMAIN basis.
SpanStart ==
    /\ pure.op = "none" /\ rngd.pc = "off"
    /\ pure' = [op |-> "span", c |-> -1, i |-> 0,
                m |-> HexBits(STIR_MIXER, U64_BITS),
                zero |-> {}, basis |-> <<>>]
    /\ UNCHANGED notpure

SpanStep ==
    /\ pure.op = "span" /\ pure.c < U64_BITS /\ pure.i < U64_BITS
    /\ pure' = [pure EXCEPT
                  !.m = StirTurn(U64_BITS, SpanPool(pure.c), @, pure.i),
                  !.i = @ + 1]
    /\ UNCHANGED notpure

SpanEnd ==
    /\ pure.op = "span" /\ pure.c < U64_BITS /\ pure.i = U64_BITS
    /\ LET out == StirXor(SpanPool(pure.c), pure.m)
           change == SymDiff(out, pure.zero)
           rest == SymDiff(change,
                           XorAll(change \cap DOMAIN pure.basis, pure.basis))
       IN  pure' = [pure EXCEPT
                      !.c = @ + 1,
                      !.i = 0,
                      !.m = HexBits(STIR_MIXER, U64_BITS),
                      !.zero = IF pure.c = -1 THEN out ELSE @,
                      !.basis =
                          IF pure.c = -1 \/ rest = {} THEN @
                          ELSE [b \in DOMAIN @ \cup {TopBit(rest)} |->
                                  IF b = TopBit(rest) THEN rest
                                  ELSE IF TopBit(rest) \in @[b]
                                       THEN SymDiff(@[b], rest)
                                       ELSE @[b]]]
    /\ UNCHANGED notpure

\* The static function returns.
PureReturn ==
    /\ pure.op # "none"
    /\ pure' = NoCall
    /\ UNCHANGED notpure

NextPure ==
    \/ /\ pure.op = "none"
       /\ \E d \in 0 .. (U64 - 1) : AccStart(d)
    \/ \E sample \in Samples : AccStep(sample)
    \/ /\ pure.op = "none"
       /\ \E teb \in 1 .. MaxTeb, dis \in {0, 1} : UnbiasStart(teb, dis)
    \/ /\ pure.op = "unbias"
       /\ \E a \in 0 .. ((2 ^ MaxTeb) - 1) : UnbiasOne(a)
    \/ /\ pure.op = "unbias"
       /\ \E a, b \in 0 .. ((2 ^ MaxTeb) - 1) : UnbiasPair(a, b)
    \/ /\ pure.op = "none"
       /\ \E teb \in 1 .. MaxTeb, time \in PureWords, loop_cnt \in 0 .. 2,
             ecdata \in PurePools, ts \in PureTimes :
             FoldCall(teb, time, loop_cnt, ecdata, ts)
    \/ /\ pure.op = "none"
       /\ \E ecdata \in PurePools, t \in PureWords,
             bits \in 1 .. MaxShuffleBits, min \in 0 .. MaxShuffleMin :
             ShuffleCall(ecdata, t, bits, min)
    \/ /\ pure.op = "none"
       /\ \E blocksize \in 1 .. MaxBlockSize, blocks \in 1 .. MaxBlocks,
             loc \in 0 .. ((MaxBlockSize * MaxBlocks) - 1) :
             WalkStart(blocksize, blocks, loc)
    \/ WalkStep
    \/ /\ pure.op = "none"
       /\ \E d1, d2 \in StirPools : StirCall(d1, d2)
    \/ StirStep
    \/ StirEnd
    \/ SpanStart
    \/ SpanStep
    \/ SpanEnd
    \/ PureReturn

SpecPure == Init /\ [][NextPure]_vars

\* ------------------------------------------------- jitterentropy-rngd.c
\* The daemon is one process: main, and the signal handlers that interrupt
\* it and each other.  rngd.stack holds the function in progress in main
\* (first) and in every handler entered and not left; the last one runs.
\* A signal is blocked while its own handler is in progress, and delivered
\* at any other point.  The collector is seen through the calls on it:
\* ec is the state of the struct Random.ec pointed to when the daemon
\* started, ecptr tells whether Random.ec is not NULL, alarm whether an
\* alarm is set, eintr whether a handler returned into select.  frees counts
\* the calls of jent_entropy_collector_free, and stale tells whether the
\* collector was passed to a call after its release had begun.
notrngd == <<colvars, fips_enabled, callvars, histvars, lifevars, initvars,
             pure>>

\* The signals of install_term.
TermSignals == {"SIGHUP", "SIGINT", "SIGQUIT", "SIGTERM"}

Top == rngd.stack[Len(rngd.stack)]

Goto(p) == [rngd.stack EXCEPT ![Len(rngd.stack)].pc = p]

Blocked(sig) == \E i \in DOMAIN rngd.stack : rngd.stack[i].sig = sig

Alive == rngd.pc = "on"

\* Where gather_entropy returns to: the loop of select_fd, or the end of
\* sig_entropy_avail.
AfterGather == IF Top.fn = "select_fd" THEN "select" ELSE "alarm"

\* main up to the call of select_fd: the collector is allocated, the
\* handlers are installed and the alarm is set.
RngdMain ==
    /\ rngd.pc = "off" /\ pure.op = "none"
    /\ rngd' = [pc |-> "on",
                stack |-> <<[fn |-> "select_fd", sig |-> "none", pc |-> "select"]>>,
                ec |-> "live", ecptr |-> TRUE, alarm |-> TRUE,
                eintr |-> FALSE, frees |-> 0, stale |-> FALSE]
    /\ UNCHANGED notrngd

\* select returns 0 or more: gather_entropy is called.
SelectReady ==
    /\ Alive /\ Top.pc = "select" /\ ~rngd.eintr
    /\ rngd' = [rngd EXCEPT !.stack = Goto("gather")]
    /\ UNCHANGED notrngd

\* select returns -1 with EINTR after a handler: the loop goes on.
SelectInterrupted ==
    /\ Alive /\ Top.pc = "select" /\ rngd.eintr
    /\ rngd' = [rngd EXCEPT !.eintr = FALSE]
    /\ UNCHANGED notrngd

\* select returns -1 with another error: dolog(LOG_ERR) calls dealloc.
SelectError ==
    /\ Alive /\ Top.pc = "select" /\ ~rngd.eintr
    /\ rngd' = [rngd EXCEPT !.stack = Goto("dealloc")]
    /\ UNCHANGED notrngd

\* gather_entropy calls jent_read_entropy(rng->ec), which returns at once
\* for a NULL collector.
GatherRead ==
    /\ Alive /\ Top.pc = "gather"
    /\ rngd' = [rngd EXCEPT
                  !.stack = Goto(IF rngd.ecptr THEN "read" ELSE AfterGather),
                  !.stale = @ \/ (rngd.ecptr /\ rngd.ec # "live")]
    /\ UNCHANGED notrngd

\* jent_read_entropy returns: with an error gather_entropy returns 0.
ReadDone(ok) ==
    /\ Alive /\ Top.pc = "read"
    /\ rngd' = [rngd EXCEPT !.stack = Goto(IF ok THEN "write" ELSE AfterGather)]
    /\ UNCHANGED notrngd

\* write_random, and the return of gather_entropy.
WriteRandom ==
    /\ Alive /\ Top.pc = "write"
    /\ rngd' = [rngd EXCEPT !.stack = Goto(AfterGather)]
    /\ UNCHANGED notrngd

\* SIGALRM is delivered: sig_entropy_avail starts.
AlarmDeliver ==
    /\ Alive /\ rngd.alarm /\ ~Blocked("SIGALRM")
    /\ rngd' = [rngd EXCEPT
                  !.alarm = FALSE,
                  !.stack = Append(@, [fn |-> "sig_entropy_avail",
                                       sig |-> "SIGALRM", pc |-> "avail"])]
    /\ UNCHANGED notrngd

\* sig_entropy_avail reads entropy_avail: it gathers when the value is
\* neither 0 nor above ENTROPYTRHESH.
AlarmAvail(low) ==
    /\ Alive /\ Top.pc = "avail"
    /\ rngd' = [rngd EXCEPT !.stack = Goto(IF low THEN "gather" ELSE "alarm")]
    /\ UNCHANGED notrngd

\* sig_entropy_avail sets the next alarm and returns.
AlarmReturn ==
    /\ Alive /\ Top.pc = "alarm"
    /\ LET rest == SubSeq(rngd.stack, 1, Len(rngd.stack) - 1)
       IN  rngd' = [rngd EXCEPT
                      !.alarm = TRUE,
                      !.stack = rest,
                      !.eintr = rest[Len(rest)].pc = "select"]
    /\ UNCHANGED notrngd

\* One of the signals of install_term is delivered: sig_term calls dealloc.
TermDeliver(sig) ==
    /\ Alive /\ ~Blocked(sig)
    /\ rngd' = [rngd EXCEPT
                  !.stack = Append(@, [fn |-> "sig_term", sig |-> sig,
                                       pc |-> "dealloc"])]
    /\ UNCHANGED notrngd

\* dealloc_rng tests rng->ec and calls jent_entropy_collector_free.
DeallocFree ==
    /\ Alive /\ Top.pc = "dealloc"
    /\ rngd' = [rngd EXCEPT
                  !.stack = Goto(IF rngd.ecptr THEN "free" ELSE "rest"),
                  !.frees = IF rngd.ecptr THEN @ + 1 ELSE @,
                  !.stale = @ \/ (rngd.ecptr /\ rngd.ec # "live"),
                  !.ec = IF rngd.ecptr THEN "freeing" ELSE @]
    /\ UNCHANGED notrngd

\* jent_entropy_collector_free returns.
FreeDone ==
    /\ Alive /\ Top.pc = "free"
    /\ rngd' = [rngd EXCEPT !.stack = Goto("null"), !.ec = "freed"]
    /\ UNCHANGED notrngd

\* rng->ec = NULL
DeallocNull ==
    /\ Alive /\ Top.pc = "null"
    /\ rngd' = [rngd EXCEPT !.stack = Goto("rest"), !.ecptr = FALSE]
    /\ UNCHANGED notrngd

\* The rest of dealloc: the buffer and the files.
DeallocRest ==
    /\ Alive /\ Top.pc = "rest"
    /\ rngd' = [rngd EXCEPT !.stack = Goto("exit")]
    /\ UNCHANGED notrngd

\* exit after dealloc, in dolog and in sig_term.
Exit ==
    /\ Alive /\ Top.pc = "exit"
    /\ rngd' = [rngd EXCEPT !.pc = "exited", !.stack = <<>>]
    /\ UNCHANGED notrngd

\* A call on a collector whose release has begun may end the process.
Crash ==
    /\ Alive /\ rngd.stale /\ Top.pc \in {"read", "free"}
    /\ rngd' = [rngd EXCEPT !.pc = "crashed", !.stack = <<>>]
    /\ UNCHANGED notrngd

NextRngd ==
    \/ RngdMain
    \/ SelectReady
    \/ SelectInterrupted
    \/ SelectError
    \/ GatherRead
    \/ \E ok \in BOOLEAN : ReadDone(ok)
    \/ WriteRandom
    \/ AlarmDeliver
    \/ \E low \in BOOLEAN : AlarmAvail(low)
    \/ AlarmReturn
    \/ \E sig \in TermSignals : TermDeliver(sig)
    \/ DeallocFree
    \/ FreeDone
    \/ DeallocNull
    \/ DeallocRest
    \/ Exit
    \/ Crash

SpecRngd == Init /\ [][NextRngd]_vars

\* ================================================================= claims
\* The step that copies a full word into the caller's buffer.
CopiesFullWord ==
    /\ pc = "read_copy" /\ ~(0 > ret)
    /\ len >= WORD_BYTES
    /\ lastOut' = {data}

\* C1: with FIPS mode enabled, no full word copied to the caller equals the
\* full word copied out of the same collector immediately before it, within
\* one read or across reads, also when a word or old_data is 0.
C1_NoRepeatedWord ==
    [][(fips_enabled /\ CopiesFullWord /\ lastOut # {}) => lastOut' # lastOut]_vars

\* C1 (where the code keeps it): a word that is not 0 is never copied out
\* twice in a row.
C1_RepeatedWordIsZero ==
    [][(fips_enabled /\ CopiesFullWord /\ lastOut # {} /\ lastOut' = lastOut)
          => lastOut = {0}]_vars

\* C2 as stated: a finished read on a collector whose fips_fail is set has
\* returned the error of the continuous test, whatever length was asked for.
C2_EveryReadFails ==
    (pc = "idle" /\ ec = "live" /\ fips_fail = 1 /\ result.op = "read")
        => (~result.ok /\ result.val = EFIPS)

\* C2 as amended: a finished read of at least one byte on a collector whose
\* fips_fail is set has returned the error of the continuous test.
C2_NonEmptyReadFails ==
    (pc = "idle" /\ ec = "live" /\ fips_fail = 1 /\ result.op = "read"
       /\ orig_len > 0)
        => (~result.ok /\ result.val = EFIPS)

\* A read of at least one byte that found fips_fail set is returning the error.
C2_Witness ==
    /\ pc = "read_err" /\ orig_len > 0 /\ fips_fail = 1 /\ ret = EFIPS
    /\ trace = <<"gen", "dead">>

\* C3: fips_fail, once set, stays set for as long as the collector exists:
\* no step of a generation pass, of the FIPS test or of a read clears it.
C3_FipsFailMonotone ==
    [][(ec = "live" /\ fips_fail = 1 /\ ec' = "live") => fips_fail' = 1]_vars

\* A generation pass and a FIPS test have run on a collector whose fips_fail
\* was set before, and it is still set.
C3_Witness ==
    /\ ec = "live" /\ fips_fail = 1
    /\ pc = "read_err" /\ trace = <<"gen", "dead">>

\* ------------------------------------------------------------------ C4
\* The steps of a call without the generation pass that jent_fips_test runs
\* itself when it primes old_data.
RECURSIVE StripPrime(_)
StripPrime(t) ==
    IF Len(t) < 2 THEN t
    ELSE IF t[1] = "prime" /\ t[2] = "gen" THEN StripPrime(SubSeq(t, 3, Len(t)))
    ELSE <<t[1]>> \o StripPrime(Tail(t))

RECURSIVE Rounds(_)
Rounds(n) == IF n = 0 THEN <<>> ELSE <<"gen", "pass", "copy">> \o Rounds(n - 1)

CeilDiv(a, b) == (a + b - 1) \div b

RECURSIVE NumOf(_, _)
NumOf(e, t) ==
    IF t = <<>> THEN 0 ELSE (IF Head(t) = e THEN 1 ELSE 0) + NumOf(e, Tail(t))

AtReadStep == pc \in {"gen", "unbias", "fips_test", "fips_cmp", "read_copy",
                      "read_ret", "read_err"}
              /\ (stack = <<>> \/ stack[Len(stack)] # "alloc_ret")

\* C4: in jent_read_entropy every copy directly follows a passed FIPS test,
\* which follows a generation pass; a read that succeeds has run exactly
\* ceil(len / 8) rounds of generate, test, copy and then exactly one more
\* generation pass whose result is not copied; the rounds have written all
\* len bytes.
C4_GenTestCopy ==
    /\ AtReadStep =>
         \A j \in 1 .. Len(trace) :
            trace[j] = "copy" => (j > 2 /\ trace[j - 1] = "pass" /\ trace[j - 2] = "gen")
    /\ pc = "read_ret" =>
         /\ StripPrime(trace) = Rounds(CeilDiv(orig_len, WORD_BYTES)) \o <<"gen">>
         /\ Len(buf) = orig_len
         /\ \A j \in 1 .. Len(buf) : buf[j] # {}

\* A read of one full and one partial block is about to return.
C4_Witness ==
    /\ pc = "read_ret" /\ orig_len > WORD_BYTES /\ orig_len % WORD_BYTES # 0
    /\ NumOf("copy", trace) = 2

\* ------------------------------------------------------------------ C5
\* C5: a read that succeeds returns the requested length: the result equals
\* len, is not negative and is none of the error codes.
C5_ReturnsLen ==
    (pc = "idle" /\ result.op = "read" /\ result.ok)
        => (result.val = orig_len /\ result.val >= 0
            /\ result.val \notin {EFIPS, ENULL})

\* ------------------------------------------------------------------ C6
\* C6: when a read fails in its n-th round, exactly the bytes of the n - 1
\* rounds before it are written to the caller's buffer and all bytes from
\* offset 8 * (n - 1) on are untouched.
C6_FailedRoundCopiesNothing ==
    pc = "read_err" =>
        /\ ret = EFIPS
        /\ Len(buf) = orig_len
        /\ \A j \in 1 .. Len(buf) :
              (buf[j] # {}) <=> (j <= WORD_BYTES * NumOf("copy", trace))

\* A read fails in its second round, after one block was copied.
C6_Witness ==
    pc = "read_err" /\ NumOf("copy", trace) = 1 /\ orig_len > WORD_BYTES

\* ------------------------------------------------------------------ C7
\* C7 as stated: every call that has started returns.
C7_EveryCallReturns == (pc # "idle") ~> (pc = "idle")

\* C7 as amended: every call returns unless it stays in the loop of
\* jent_unbiased_bit for ever, which it can only with unbias enabled: a call
\* on a collector with unbias disabled always returns.
C7_ReturnsUnlessUnbiasing ==
    /\ ([]<>(pc = "idle")) \/ (<>[](pc = "unbias"))
    /\ (pc # "idle" /\ disable_unbias = 1) ~> (pc = "idle")

\* A read on a collector with unbias disabled is about to return.
C7_Witness ==
    pc = "read_ret" /\ disable_unbias = 1 /\ orig_len > 0 /\ GenRounds(osr) > 0

\* ------------------------------------------------------------------ C8
\* Measurements of one generation pass with unbias disabled.
PassMeasurements(o) == IF GenRounds(o) = 0 THEN 0 ELSE GenRounds(o) + 1

\* Fewest measurements of one generation pass with unbias enabled.
UnbiasedPassMeasurements(o) == IF GenRounds(o) = 0 THEN 0 ELSE 2 * GenRounds(o) + 1

Least(a, b) == IF a < b THEN a ELSE b

ScrubOf(w, a) ==
    LET d == Xor(rol64(w, (GenRounds(osr) * TIME_ENTROPY_BITS) % DATA_SIZE_BITS), a)
    IN  IF stir # 0 THEN jent_stir_pool(d) ELSE d

C10_Step100IsCoarse ==
    (init.pc = "done" /\ init.step100) => init.ret = "ECOARSETIME"

\* C10 as amended: with a timer that advances by 100 on every call and never
\* reads 0, jent_entropy_init returns ECOARSETIME; and so it does whenever the
\* loop and the checks before the last pass and more than 90% of the
\* evaluated deltas are multiples of 100.
C10_CoarseTimer ==
    init.pc = "done" =>
        /\ (init.step100 /\ ~init.zero) => init.ret = "ECOARSETIME"
        /\ (/\ init.i = TESTLOOPCOUNT + CLEARCACHE
            /\ ~(3 < init.time_backwards)
            /\ init.delta_sum # 0
            /\ 10 * init.count_mod > 9 * TESTLOOPCOUNT)
               => init.ret = "ECOARSETIME"

\* jent_entropy_init has run all its iterations with a timer that advances by
\* 100 on every call.
C10_Witness ==
    /\ init.pc = "done" /\ init.step100 /\ ~init.zero
    /\ init.i = TESTLOOPCOUNT + CLEARCACHE /\ init.count_mod = TESTLOOPCOUNT

\* ---------------------------------------------------------------- C11
\* jent_entropy_init has run its loop to the end: no iteration returned.
InitLoopDone == init.pc = "done" /\ init.i = TESTLOOPCOUNT + CLEARCACHE

\* C11: when no check inside the loop of jent_entropy_init fails, the result
\* is ENOMONOTONIC exactly when more than 3 of the measured iterations had a
\* second time stamp not greater than the first; up to 3 such iterations are
\* tolerated and those of the warm-up iterations are not counted.
C11_NonMonotonic ==
    InitLoopDone => ((init.ret = "ENOMONOTONIC") <=> (init.hback > 3))

\* A backward step in the warm-up and three measured ones are tolerated.
C11_Witness ==
    /\ InitLoopDone /\ init.warmback /\ init.hback = 3
    /\ init.ret # "ENOMONOTONIC"

\* ---------------------------------------------------------------- C12
\* C12: when all measured deltas are the same and time_backwards <= 3 the
\* result is EVARVAR, and the first measured sample adds nothing to delta_sum.
C12_IdenticalDeltas ==
    /\ (InitLoopDone /\ init.hsame /\ init.time_backwards <= 3)
          => init.ret = "EVARVAR"
    /\ (init.pc = "loop" /\ init.i = CLEARCACHE + 1) => init.delta_sum = 0

\* ---------------------------------------------------------------- C13
\* C13: when the checks before it pass and delta_sum / TESTLOOPCOUNT does not
\* exceed TIME_ENTROPY_BITS, the result is EMINVARVAR.
C13_MinVariationVar ==
    (/\ InitLoopDone
     /\ ~(3 < init.time_backwards)
     /\ init.delta_sum # 0
     /\ (init.delta_sum \div TESTLOOPCOUNT) <= TIME_ENTROPY_BITS)
        => init.ret = "EMINVARVAR"

\* ---------------------------------------------------------------- C14
\* C14: a collector made by jent_entropy_collector_alloc(osr_in, flags) has
\* osr = max(osr_in, 1), hence osr >= 1, stir enabled iff JENT_DISABLE_STIR is
\* not among the flags, unbias disabled iff JENT_DISABLE_UNBIAS is, and mem
\* allocated iff JENT_DISABLE_MEMORY_ACCESS is not, each flag on its own,
\* until jent_entropy_collector_free takes the collector apart.
C14_AllocSetsFields ==
    (ec = "live" /\ pc # "free_struct") =>
        /\ osr = (IF args.osr > 1 THEN args.osr ELSE 1)
        /\ osr >= 1
        /\ (stir = 1) <=> (JENT_DISABLE_STIR \notin args.flags)
        /\ (disable_unbias = 1) <=> (JENT_DISABLE_UNBIAS \in args.flags)
        /\ mem <=> (JENT_DISABLE_MEMORY_ACCESS \notin args.flags)

\* A collector returned for osr 0 with stir and memory access disabled only.
C14_Witness ==
    /\ pc = "idle" /\ result = [op |-> "alloc", ok |-> TRUE, val |-> 0]
    /\ args = [osr |-> 0, flags |-> {JENT_DISABLE_STIR, JENT_DISABLE_MEMORY_ACCESS}]
    /\ osr = 1 /\ stir = 0 /\ disable_unbias = 0 /\ ~mem

\* ---------------------------------------------------------------- C15
\* The steps that read or write the memory block, and those that read or
\* write the struct.
MemSteps == {"zero_mem", "free_mem"}
StructSteps == {"read_struct", "write_struct", "zero_struct", "free_struct"}

\* C15: jent_entropy_collector_free releases the memory block, when there is
\* one, before the struct, each once; no step touches the block after its
\* release and none touches the struct or the block the struct points to
\* after the release of the struct.
C15_FreeOrder ==
    pc \in {"free_struct", "free_ret"} =>
        /\ \A i, j \in 1 .. Len(trace) :
              (trace[i] = "free_mem" /\ trace[j] = "free_struct") => i < j
        /\ \A i, j \in 1 .. Len(trace) :
              (i < j /\ trace[i] = "free_mem") => trace[j] \notin MemSteps
        /\ \A i, j \in 1 .. Len(trace) :
              (i < j /\ trace[i] = "free_struct")
                  => trace[j] \notin (StructSteps \cup MemSteps)
        /\ (pc = "free_struct" /\ JENT_DISABLE_MEMORY_ACCESS \notin args.flags)
              => \E i \in 1 .. Len(trace) : trace[i] = "free_mem"
        /\ pc = "free_ret"
              => \E i \in 1 .. Len(trace) : trace[i] = "free_struct"

\* A collector with a memory block has been released.
C15_Witness ==
    /\ pc = "free_ret"
    /\ trace = <<"read_struct", "zero_mem", "free_mem", "write_struct",
                 "zero_struct", "free_struct">>

\* ---------------------------------------------------------------- C16
\* A collector whose noise sources have contributed only zero samples and
\* that does not stir: its pool has the same value after every pass.
ZeroNoise == ec = "live" /\ zeros /\ stir = 0

OnePassAfterPrime ==
    \A i \in 1 .. Len(trace) :
        trace[i] = "prime" =>
            /\ (i + 1 <= Len(trace)) => trace[i + 1] = "gen"
            /\ (i + 2 <= Len(trace)) => trace[i + 2] \in {"pass", "fail"}

\* C17 as stated: the test that primes itself runs one generation pass and
\* returns success without setting fips_fail.
C17_PrimingSucceeds ==
    /\ OnePassAfterPrime
    /\ \A i \in 1 .. Len(trace) :
          (trace[i] = "prime" /\ i + 2 <= Len(trace))
              => (trace[i + 2] = "pass" /\ fips_fail = 0)

\* C17: with FIPS enabled, fips_fail unset and old_data = 0 jent_fips_test
\* sets old_data to data and runs exactly one generation pass; then it
\* compares: when the pass has left data equal to old_data it sets fips_fail
\* and returns EFIPS, else it sets old_data to the new data and returns 0.
C17_PrimingCompares ==
    /\ []OnePassAfterPrime
    /\ [][(pc = "fips_test" /\ fips_enabled /\ fips_fail = 0 /\ old_data = 0)
              => (old_data' = data /\ pc' = "gen" /\ k' = 0
                  /\ stack' = <<"fips_cmp">> \o stack
                  /\ fips_fail' = 0 /\ data' = data)]_vars
    /\ [][pc = "fips_cmp"
              => IF data = old_data
                 THEN fips_fail' = 1 /\ ret' = EFIPS /\ old_data' = old_data
                 ELSE fips_fail' = 0 /\ ret' = 0 /\ old_data' = data]_vars
    /\ [](pc = "fips_cmp" => (fips_enabled /\ fips_fail = 0))

\* The priming pass has reproduced a pool that is not 0, and the test failed.
C17_Witness ==
    /\ Len(trace) >= 3
    /\ trace[Len(trace) - 2] = "prime" /\ trace[Len(trace)] = "fail"
    /\ data # 0 /\ data = old_data /\ fips_fail = 1 /\ ret = EFIPS

\* ---------------------------------------------------------------- C18
\* C18: when jent_fips_enabled() is false, jent_fips_test returns 0, leaves
\* old_data, fips_fail and data as they are and runs no generation pass; so
\* jent_read_entropy on a collector never returns EFIPS.
C18_FipsDisabled ==
    /\ [][(pc = "fips_test" /\ ~fips_enabled)
              => (/\ ret' = 0 /\ pc' = Head(stack) /\ stack' = Tail(stack)
                  /\ old_data' = old_data /\ fips_fail' = fips_fail
                  /\ data' = data /\ nmeas' = nmeas /\ k' = k)]_vars
    /\ [](~fips_enabled =>
             /\ old_data = 0 /\ fips_fail = 0 /\ ret = 0
             /\ pc \notin {"fips_cmp", "read_err"}
             /\ (result.op = "read" /\ ec = "live") => result.ok)

\* FIPS mode is disabled and the test has let a round of a read through.
C18_Witness ==
    /\ ~fips_enabled /\ pc = "read_copy" /\ ret = 0
    /\ Len(trace) >= 2 /\ trace[Len(trace)] = "pass"
    /\ data # 0

\* ---------------------------------------------------------------- C19
\* C19: every sample a generation pass accumulates is folded from the delta
\* of two time stamps read within that pass: the first iteration takes
\* exactly one throwaway measurement before the first sample, and no other
\* iteration takes one.
C19_SamplesOfThisPass ==
    /\ ~pass.stale
    /\ (pc = "gen" /\ k = 0) => (pass.throw = 0 /\ ~pass.fresh)
    /\ (pc = "unbias" \/ (pc = "gen" /\ k > 0))
          => (pass.throw = 1 /\ pass.fresh)
    /\ pc \notin {"gen", "unbias"} => pass = NoPass

\* A pass of a read is in its second iteration and has accumulated a
\* sample that is not 0.
C19_Witness ==
    /\ pc = "gen" /\ k = 1 /\ k < GenRounds(osr)
    /\ pass = [throw |-> 1, fresh |-> TRUE, stale |-> FALSE]
    /\ reads > 0 /\ ~zeros /\ acc # 0

\* ---------------------------------------------------------------- C20
\* C20: for every osr >= 1 a generation pass performs exactly
\* ceil(DATA_SIZE_BITS / TIME_ENTROPY_BITS) * osr accumulation steps, the
\* product not wrapping around, before it leaves its loop.
C20_ExactRounds ==
    (pc = "gen" /\ osr >= 1 /\ ~(k < GenRounds(osr)))
        => k = CeilDiv(DATA_SIZE_BITS, TIME_ENTROPY_BITS) * osr

\* ---------------------------------------------------------------- C21
\* C21: after k accumulation steps whose samples are all 0 the pool is the
\* pool before the first step rotated left by k * TIME_ENTROPY_BITS.
C21_ZeroSamplesRotate ==
    (pure.op = "acc" /\ pure.zero)
        => pure.d = rol64(pure.d0, (pure.k * TIME_ENTROPY_BITS) % DATA_SIZE_BITS)

\* Three steps with zero samples have rotated a pool that is not symmetric.
C21_Witness ==
    /\ pure.op = "acc" /\ pure.zero /\ pure.k = 3
    /\ pure.d0 = 1 /\ pure.d # pure.d0

\* ---------------------------------------------------------------- C22
\* C22: with unbias enabled jent_unbiased_bit returns, at the first pair of
\* samples a # b, the sample a, for every TIME_ENTROPY_BITS; with unbias
\* disabled it returns its one sample as it is.
C22_ReturnsFirstOfPair ==
    (pure.op = "unbias" /\ pure.out # -1) => pure.out = pure.a

\* ---------------------------------------------------------------- C23
\* XOR over i in i .. N - 1 of ((t >> (teb * i)) & ((1 << teb) - 1)), with
\* N = w / teb.
RECURSIVE WindowXor(_, _, _, _)
WindowXor(w, teb, t, i) ==
    IF i < w \div teb
    THEN XorN((t \div (2 ^ (teb * i))) % (2 ^ teb),
              WindowXor(w, teb, t, i + 1), w)
    ELSE 0

\* C23: for every time stamp, every TIME_ENTROPY_BITS and every loop count
\* >= 1, given or taken from the loop shuffle, jent_fold_time emits the XOR
\* of the TIME_ENTROPY_BITS-bit windows of the time stamp, whatever the loop
\* count and the collector.
C23_FoldIsWindowXor ==
    pure.op = "fold" =>
        /\ pure.loops >= 1
        /\ pure.folded = WindowXor(PURE_BITS, pure.teb, pure.time, 0)

\* A fold of more than one pass, with the loop count from the shuffle, of
\* windows of 3 bits that do not cover the word, with a folded value # 0.
C23_Witness ==
    /\ pure.op = "fold" /\ pure.teb = 3 /\ pure.loop_cnt = 0
    /\ pure.loops > 2 /\ pure.ecdata # -1
    /\ pure.time >= 2 ^ (PURE_BITS - 1) /\ pure.folded = 5

\* ---------------------------------------------------------------- C24
\* C24: for every time stamp, every pool or no collector, every bits and
\* min, jent_loop_shuffle returns a value of
\* [1 << min, (1 << min) + (1 << bits)); the loop count jent_fold_time takes
\* from it (bits = MAX_FOLD_LOOP_BIT, min = MIN_FOLD_LOOP_BIT) is in 1 .. 16.
C24_ShuffleRange ==
    /\ pure.op = "shuffle" =>
          /\ 2 ^ pure.min <= pure.out
          /\ pure.out < (2 ^ pure.min) + (2 ^ pure.bits)
          /\ (pure.bits = MAX_FOLD_LOOP_BIT /\ pure.min = MIN_FOLD_LOOP_BIT)
                => pure.out \in 1 .. 16
    /\ (pure.op = "fold" /\ pure.loop_cnt = 0) => pure.loops \in 1 .. 16

\* The largest loop count of the fold, for a collector with a pool.
C24_Witness ==
    /\ pure.op = "shuffle" /\ pure.ecdata > 0 /\ pure.t > 0
    /\ pure.bits = MAX_FOLD_LOOP_BIT /\ pure.min = MIN_FOLD_LOOP_BIT
    /\ pure.out = 16

\* ---------------------------------------------------------------- C25
\* C25 as stated: memlocation < memblocksize * memblocks in every state of
\* every collector, those without a memory block included.
C25_MemlocationBelowWrap ==
    (ec = "live" /\ pc # "free_struct")
        => memlocation < memblocksize * memblocks

\* C25: in every state of a collector with a memory block memlocation <
\* memblocksize * memblocks; a collector allocated with
\* JENT_DISABLE_MEMORY_ACCESS has memblocksize = memblocks = 0 and its
\* memlocation stays 0.
C25_MemlocationInBlock ==
    (ec = "live" /\ pc # "free_struct")
        => /\ mem <=> (JENT_DISABLE_MEMORY_ACCESS \notin args.flags)
           /\ IF mem
              THEN 0 <= memlocation /\ memlocation < memblocksize * memblocks
              ELSE memlocation = 0 /\ memblocksize * memblocks = 0

\* The walk has moved memlocation of a collector with a memory block.
C25_Witness ==
    /\ ec = "live" /\ mem /\ pc = "gen" /\ nmeas > 2
    /\ memlocation = (memblocksize * memblocks) - 1

\* ---------------------------------------------------------------- C26
RECURSIVE GCD(_, _)
GCD(a, b) == IF b = 0 THEN a ELSE GCD(b, a % b)

\* The geometry of the walk makes its step and the size of the memory coprime.
WalkCoprime ==
    /\ pure.op = "walk"
    /\ GCD(pure.blocksize - 1, pure.blocksize * pure.blocks) = 1

\* C26 as stated: with a coprime geometry the walk has touched every memory
\* location after memblocks iterations.
C26_CoverageInBlocks ==
    (WalkCoprime /\ pure.i = pure.blocks)
        => pure.touched = 0 .. ((pure.blocksize * pure.blocks) - 1)

\* C26: with a coprime geometry the walk touches a new location in every
\* iteration, so it has touched every memory location after
\* memblocksize * memblocks iterations and not before.
C26_CoverageInSize ==
    WalkCoprime =>
        /\ Cardinality(pure.touched) = pure.i
        /\ pure.touched \subseteq 0 .. ((pure.blocksize * pure.blocks) - 1)
        /\ (pure.i = pure.blocksize * pure.blocks)
              => pure.touched = 0 .. ((pure.blocksize * pure.blocks) - 1)

\* A walk over 2 blocks of 4 bytes has touched all 8 bytes, not from 0.
C26_Witness ==
    /\ WalkCoprime /\ pure.blocksize = 4 /\ pure.blocks = 2
    /\ pure.start = 5 /\ pure.i = 8 /\ pure.touched = 0 .. 7

\* ---------------------------------------------------------------- C27
\* C27: jent_stir_pool on 64-bit pools is a function of the pool alone that
\* maps no two pools to the same word.  Two calls with the same pool give
\* the same word and two calls with different pools give different words;
\* the words for d1, d2 and d1 ^ d2 XOR to the word for the pool 0, so two
\* pools collide only if the changes of the set bits of their XOR cancel;
\* and the change of no single bit is an XOR of the changes of other bits,
\* so no changes cancel.
C27_StirBijection ==
    /\ pure.op = "stirred" =>
          /\ (pure.d1 = pure.d2) => (pure.out1 = pure.out2)
          /\ (pure.d1 # pure.d2) => (pure.out1 # pure.out2)
          /\ SymDiff(SymDiff(pure.out1, pure.out2), pure.outx)
                = HexBits(STIR_MIXER, U64_BITS)
          /\ pure.out1 \subseteq 0 .. (U64_BITS - 1)
    /\ pure.op = "span" =>
          /\ DOMAIN pure.basis \subseteq 0 .. (U64_BITS - 1)
          /\ Cardinality(DOMAIN pure.basis) = IF pure.c = -1 THEN 0 ELSE pure.c
          /\ (pure.c >= 0) => (pure.zero = HexBits(STIR_MIXER, U64_BITS))

\* The changes of all 64 bits are kept.
C27_Witness ==
    /\ pure.op = "span" /\ pure.c = U64_BITS
    /\ DOMAIN pure.basis = 0 .. (U64_BITS - 1)

\* ---------------------------------------------------------------- C28
\* C28 as stated: in the state jent_entropy_collector_alloc returns a
\* collector, fips_fail of the collector is 0.
C28_ReturnedUsable ==
    (pc = "idle" /\ ec = "live"
     /\ result = [op |-> "alloc", ok |-> TRUE, val |-> 0])
        => fips_fail = 0

\* ---------------------------------------------------------------- C29
\* The functions in progress that are inside jent_read_entropy, and those
\* that are inside gather_entropy.
Readers == {i \in DOMAIN rngd.stack : rngd.stack[i].pc = "read"}
Gatherers == {i \in DOMAIN rngd.stack : rngd.stack[i].pc \in {"read", "write"}}

\* C29 as stated: at most one jent_read_entropy on the collector and one use
\* of the buffer is in progress, and sig_entropy_avail does not start
\* gather_entropy while the gather_entropy of the select loop is in
\* progress.
C29_OneReader ==
    Alive =>
        /\ Cardinality(Readers) <= 1
        /\ Cardinality(Gatherers) <= 1
        /\ ~(/\ rngd.stack[1].pc \in {"read", "write"}
             /\ \E i \in DOMAIN rngd.stack :
                    /\ rngd.stack[i].fn = "sig_entropy_avail"
                    /\ rngd.stack[i].pc \in {"read", "write"})

\* ---------------------------------------------------------------- C30
\* C30 as stated: the collector is passed to jent_entropy_collector_free at
\* most once, and to no call after its release has begun.
C30_ReleasedOnce ==
    rngd.pc # "off" => (rngd.frees <= 1 /\ ~rngd.stale)

====
